---- MODULE Spec2Model ----
(***************************************************************************)
(* Sub-issue family construction and rule validation of the issue report   *)
(* tool (src/unnamed/part_000): enrichIssuesWithSubIssues and              *)
(* fetchSubIssuesRecursively as a machine over an explicit call stack that *)
(* takes one step per answer of the GraphQL provider (a request, an edge   *)
(* of a page); the provider's answers do not change during a run.          *)
(***************************************************************************)
EXTENDS Integers, Sequences, FiniteSets, TLC

\* ---------------------------------------------------------------- bounds
NumItems == 4
MaxEdges == 3
MaxDepth == 2
MaxPageSize == 2
MaxFaults == 1
MaxLabels == 3
\* bits of the significand of the floating-point totals (float64 carries 53; the
\* rounding of a sum is the same at every width)
SignificandBits == 4
\* issues of the project handed to filterIssues
MaxIssues == 3
\* days from which the current date is taken, and the instants told apart within a day
NumDays == 14
TicksPerDay == 3
\* pages of the repository's issue list
MaxPages == 3

Items == 1..NumItems

VARIABLES
    \* the provider (GitHub); it answers a repeated request the same way
    subIssues,      \* subIssues[u]: the issues the provider reports as sub-issues of u
    issue,          \* issue[u]: the node fields the provider has reported for u
    pageSize,       \* edges per page of the subIssues connection
    failAt,         \* <<u, page>> requests on which client.Execute has returned an error
    \* the program
    topLevelIssues, \* argument of enrichIssuesWithSubIssues
    maxDepth,       \* argument of enrichIssuesWithSubIssues
    idx,            \* loop index i of enrichIssuesWithSubIssues (1-based)
    enrichedIssues, \* enrichedIssues[0..i-1] filled so far
    stack,          \* activation records of fetchSubIssuesRecursively, top last
    result,         \* what enrichIssuesWithSubIssues returned
    built,          \* what its first call returned, once it has been called again
    \* observation
    fetchLog,       \* every client.Execute call, in order
    warnings,       \* issues for which a fetch error was logged
    nextVisit,      \* number of calls of fetchSubIssuesRecursively so far
    \* the rule validators, run on one issue
    item,           \* the IssueTimeInfo under validation
    violations,     \* what checkRuleViolations returned for it
    issueViolations,\* what checkIssueRuleViolation returned for it
    checked,        \* whether the validators have run on item
    before,         \* the two results before the issue's Size was set
    \* the aggregator, run on one family
    family,         \* a top-level IssueTimeInfo with its SubIssues tree
    summaries,      \* what calculateIssueSummaries returned for it
    prior,          \* the family and the summaries before the family was changed
    \* filterIssues, run on the project's issues
    allIssues,      \* what fetchAllProjectIssues returned
    filterOptions,  \* the FilterOptions of main
    filteredTopLevelIssues, \* what filterIssues returned
    filterCalled,   \* whether filterIssues has run
    \* the custom fields of a sub-issue
    subIssue,       \* edge.Node of a page of sub-issues: its labels and field values
    \* calculateWeeklyPeriod
    now,            \* time.Now().In(jst), an instant
    weekday,        \* the argument, WEEKDAY
    weeklyPeriod,   \* what calculateWeeklyPeriod returned
    \* getTopParentIssue (whoami)
    parentOf,       \* the provider: parentOf[n] is the parent of issue n, 0 for none
    issueNumber,    \* variables["issueNumber"]
    q,              \* the query struct, decoded into by every client.Query
    visitedIssues,  \* the map visitedIssues, as the set of its keys
    topParent,      \* what getTopParentIssue returned
    queryLog,       \* the issue numbers of every client.Query, in order
    \* processIssue and findSubIssues (evalv3)
    bodies,         \* the provider: bodies[n] is the issue numbers the patterns match in
                    \* the body of issue n, in the order findSubIssues meets them
    pulls,          \* the provider: the numbers that are pull requests
    calls,          \* activation records of processIssue, top last
    issueInfo,      \* what main's call of processIssue returned
    \* getAllIssues (evalv3)
    pages,          \* the provider: the pages of the repository's issue list
    opts,           \* opts.Page
    listedIssues,   \* the local allIssues of getAllIssues
    listReturn,     \* what getAllIssues returned, and the break it left the loop by
    listFaults,     \* the errors client.Issues.ListByRepo has returned
    listLog,        \* every client.Issues.ListByRepo call: the page asked for, and ok
    \* calculateIssueHierarchyStats and calculateIssueSummaries on one list
    families,       \* enrichedIssues of main: the built families
    hierarchyStats, \* what calculateIssueHierarchyStats returned for them
    issueSummaries  \* what calculateIssueSummaries returned for them

bvars == <<subIssues, issue, pageSize, failAt, topLevelIssues, maxDepth, idx,
           enrichedIssues, stack, result, built, fetchLog, warnings, nextVisit>>

vvars == <<item, violations, issueViolations, checked, before>>

avars == <<family, summaries, prior>>

fvars == <<allIssues, filterOptions, filteredTopLevelIssues, filterCalled>>

\* the state of the parts other than the builder, the validators and the aggregator
cvars == <<subIssue>>
wvars == <<now, weekday, weeklyPeriod>>
pvars == <<parentOf, issueNumber, q, visitedIssues, topParent, queryLog>>
evars == <<bodies, pulls, calls, issueInfo>>
gvars == <<pages, opts, listedIssues, listReturn, listFaults, listLog>>
svars == <<families, hierarchyStats, issueSummaries>>
xvars == <<fvars, cvars, wvars, pvars, evars, gvars, svars>>

vars == <<bvars, vvars, avars, xvars>>

NoRet == [none |-> TRUE]
NoResult == [none |-> TRUE]
NoItem == [none |-> TRUE]

\* filterIssues has nothing to run on
FilterIdle ==
    /\ allIssues = <<>>
    /\ filterOptions = NoRet
    /\ filteredTopLevelIssues = <<>>
    /\ filterCalled = FALSE

FieldsIdle == subIssue = NoItem

WeeklyIdle == now = 0 /\ weekday = 0 /\ weeklyPeriod = NoRet

TopParentIdle ==
    /\ parentOf = <<>>
    /\ issueNumber = 0
    /\ q = NoRet
    /\ visitedIssues = {}
    /\ topParent = NoRet
    /\ queryLog = <<>>

ProcessIdle == bodies = <<>> /\ pulls = {} /\ calls = <<>> /\ issueInfo = NoRet

GetAllIdle ==
    /\ pages = <<>>
    /\ opts = 0
    /\ listedIssues = <<>>
    /\ listReturn = NoRet
    /\ listFaults = 0
    /\ listLog = <<>>

StatsIdle == families = <<>> /\ hierarchyStats = NoRet /\ issueSummaries = NoRet

EvalIdle == ProcessIdle /\ GetAllIdle /\ StatsIdle

ToolsIdle == FilterIdle /\ FieldsIdle /\ WeeklyIdle /\ TopParentIdle /\ EvalIdle

\* ------------------------------------------------------------ provider

Min(a, b) == IF a < b THEN a ELSE b
Max(a, b) == IF a > b THEN a ELSE b

RECURSIVE SortedSeq(_)
\* a set of issue numbers as the sequence the connection returns it in
SortedSeq(S) ==
    IF S = {} THEN <<>>
    ELSE LET m == CHOOSE x \in S : \A y \in S : x <= y
         IN <<m>> \o SortedSeq(S \ {m})

Edges(u) == SortedSeq(subIssues[u])

\* subIssues(first: pageSize, after: cursor): cursor c is the c-th page
NumPages(u) == Max(1, (Len(Edges(u)) + pageSize - 1) \div pageSize)
PageEdges(u, c) ==
    SubSeq(Edges(u), (c - 1) * pageSize + 1, Min(c * pageSize, Len(Edges(u))))
HasNextPage(u, c) == c * pageSize < Len(Edges(u))

NormalIssue == [State |-> "CLOSED", StateReason |-> "COMPLETED",
                CreatedAt |-> "rfc3339", ClosedAt |-> "rfc3339"]
OddIssues ==
    { [NormalIssue EXCEPT !.StateReason = "NOT_PLANNED"],
      [NormalIssue EXCEPT !.State = "OPEN", !.StateReason = "", !.ClosedAt = "nil"],
      [NormalIssue EXCEPT !.CreatedAt = "malformed"],
      [NormalIssue EXCEPT !.ClosedAt = "malformed"] }

RECURSIVE ReachFrom(_, _)
ReachFrom(E, S) ==
    LET S2 == S \cup {e[2] : e \in {f \in E : f[1] \in S}}
    IN IF S2 = S THEN S ELSE ReachFrom(E, S2)

RECURSIVE Within(_, _, _)
\* the issues at most k sub-issue edges below the issues of S
Within(E, S, k) ==
    IF k <= 0 THEN S
    ELSE Within(E, S \cup {e[2] : e \in {f \in E : f[1] \in S}}, k - 1)

RECURSIVE EdgeSets(_, _, _)
\* the edge sets of at most n edges that leave issues at most k levels below R
EdgeSets(n, R, k) ==
    IF n = 0 THEN {{}}
    ELSE LET prev == EdgeSets(n - 1, R, k)
         IN prev \cup UNION {{E \cup {<<u, v>>} : u \in Within(E, R, k), v \in Items} :
                                E \in prev}

RootLists == {<<1>>, <<1, 2>>}
Range(s) == {s[k] : k \in 1..Len(s)}

RECURSIVE Discovery(_, _, _)
\* the issues below the first k of seq, in the order a breadth-first walk first meets them
Discovery(E, seq, k) ==
    IF k > Len(seq) THEN seq
    ELSE Discovery(E,
             seq \o SortedSeq({e[2] : e \in {f \in E : f[1] = seq[k]}} \ Range(seq)),
             k + 1)

\* ------------------------------------------------------- fetchSubIssuesRecursively

DepthReached_OffByOne(depth, md) == depth > md
DepthReached_Never(depth, md) == FALSE
\* if depth >= maxDepth
DepthReached(depth, md) == depth >= md

IsCompleted_StateOnly(n) == n.State = "CLOSED"
\* subIssue.State == "CLOSED" && stateReason == "COMPLETED"
IsCompleted(n) == n.State = "CLOSED" /\ n.StateReason = "COMPLETED"

ParsesRFC3339(t) == t = "rfc3339"

TimesParse_CreatedOnly(n) == ParsesRFC3339(n.CreatedAt)
\* time.Parse(time.RFC3339, ...) succeeds on CreatedAt and, when it is not nil, on ClosedAt
TimesParse(n) ==
    /\ ParsesRFC3339(n.CreatedAt)
    /\ (n.ClosedAt # "nil" => ParsesRFC3339(n.ClosedAt))

FetchErrorResult_Partial(all) == [val |-> all, err |-> FALSE]
\* return nil, fmt.Errorf(...)
FetchErrorResult(all) == [val |-> <<>>, err |-> TRUE]

NextCursor_Same(c) == c
\* cursor = *PageInfo.EndCursor
NextCursor(c) == c + 1

Frame(u, d, v, p) ==
    [url |-> u, depth |-> d, visit |-> v, parent |-> p, pc |-> "fetch",
     cursor |-> 1, edges |-> <<>>, all |-> <<>>, cur |-> NoRet]

Top == stack[Len(stack)]

ProviderEdges == {<<u, v>> \in Items \X Items : v \in subIssues[u]}

\* what the provider holds below the top-level issues
Reachable == ReachFrom(ProviderEdges, Range(topLevelIssues))

\* the things that went wrong so far: requests that failed, and reported issues that are
\* not parseable COMPLETED issues
Faults ==
    Cardinality(failAt) + Cardinality({u \in DOMAIN issue : issue[u] # NormalIssue})

\* the request for page c of u has been answered before
Answered(u, c) ==
    \E j \in 1..Len(fetchLog) :
        fetchLog[j].url = u /\ fetchLog[j].page = c /\ fetchLog[j].ok

\* whether client.Execute succeeds for page c of u
ExecuteOutcomes(u, c) ==
    IF <<u, c>> \in failAt THEN {FALSE}
    ELSE IF Answered(u, c) \/ Faults >= MaxFaults THEN {TRUE}
    ELSE {TRUE, FALSE}

\* the node fields a page can carry for issue u
NodeFields(u) ==
    IF u \in DOMAIN issue THEN {issue[u]}
    ELSE IF Faults >= MaxFaults THEN {NormalIssue}
    ELSE {NormalIssue} \cup OddIssues

Done == result # NoResult

\* the program's own state, as the value the control flow below transforms
Machine ==
    [stack |-> stack, idx |-> idx, enrichedIssues |-> enrichedIssues,
     result |-> result, warnings |-> warnings, nextVisit |-> nextVisit]

\* the program's state becomes machine (which is evaluated once)
Becomes(machine) ==
    \E m \in {machine} :
        /\ stack' = m.stack
        /\ idx' = m.idx
        /\ enrichedIssues' = m.enrichedIssues
        /\ result' = m.result
        /\ warnings' = m.warnings
        /\ nextVisit' = m.nextVisit

\* the one element of a singleton: Only({F(m) : m \in {e}}) is F(e), e evaluated once
Only(S) == CHOOSE x \in S : TRUE

TopOf(m) == m.stack[Len(m.stack)]
WithTop(m, f) == [m EXCEPT !.stack[Len(m.stack)] = f]
Popped(m) == [m EXCEPT !.stack = SubSeq(m.stack, 1, Len(m.stack) - 1)]

RECURSIVE EnrichFrom(_), Enter(_, _, _), Return(_, _), NextEdge(_)

\* enrichIssuesWithSubIssues: the loop from index idx on, up to the next request or to
\* return enrichedIssues, nil
EnrichFrom(machine) ==
    LET Loop(m) ==
            IF m.idx > Len(topLevelIssues)
            THEN [m EXCEPT !.result = [issues |-> m.enrichedIssues, err |-> FALSE]]
            ELSE Enter(m, topLevelIssues[m.idx], 0)
    IN Only({Loop(m) : m \in {machine}})

\* the call fetchSubIssuesRecursively(u, d, maxDepth): the depth check on entry
Enter(machine, u, d) ==
    LET Entry(m) ==
            LET called == [m EXCEPT !.nextVisit = @ + 1]
                parent == IF m.stack = <<>> THEN 0 ELSE TopOf(m).visit
            IN IF DepthReached(d, maxDepth)
               THEN Return(called, [val |-> <<>>, err |-> FALSE])
               ELSE [called EXCEPT !.stack = Append(@, Frame(u, d, m.nextVisit, parent))]
    IN Only({Entry(m) : m \in {machine}})

\* a call returns r to its caller, the activation on top of the stack or the loop of
\* enrichIssuesWithSubIssues: the warning, the append or the store, and on
Return(machine, r) ==
    LET Back(m) ==
            IF m.stack = <<>>
            THEN EnrichFrom([m EXCEPT
                     !.warnings = IF r.err THEN @ \cup {topLevelIssues[m.idx]} ELSE @,
                     !.enrichedIssues = Append(@,
                         [IssueURL |-> topLevelIssues[m.idx], SubIssues |-> r.val]),
                     !.idx = @ + 1])
            ELSE LET f == TopOf(m)
                     sub == IF r.err THEN f.cur ELSE [f.cur EXCEPT !.SubIssues = r.val]
                 IN NextEdge(WithTop(
                        [m EXCEPT !.warnings = IF r.err THEN @ \cup {f.cur.IssueURL} ELSE @],
                        [f EXCEPT !.pc = "edges", !.cur = NoRet,
                                  !.all = Append(@, sub), !.edges = Tail(@)]))
    IN Only({Back(m) : m \in {machine}})

\* the activation on top is through with an edge: the next edge, or with the page
\* exhausted the next page, or return allSubIssues, nil
NextEdge(machine) ==
    LET After(m) ==
            LET f == TopOf(m)
            IN IF f.edges # <<>> THEN m
               ELSE IF HasNextPage(f.url, f.cursor)
               THEN WithTop(m, [f EXCEPT !.pc = "fetch", !.cursor = NextCursor(@)])
               ELSE Return(Popped(m), [val |-> f.all, err |-> FALSE])
    IN Only({After(m) : m \in {machine}})

\* enrichIssuesWithSubIssues is called
EnrichIssues ==
    /\ ~Done /\ stack = <<>>
    /\ Becomes(EnrichFrom(Machine))
    /\ UNCHANGED vvars
    /\ UNCHANGED avars
    /\ UNCHANGED xvars
    /\ UNCHANGED <<subIssues, issue, pageSize, failAt, topLevelIssues, maxDepth, fetchLog>>
    /\ UNCHANGED built

\* one client.Execute of the pagination loop
Execute ==
    /\ stack # <<>> /\ Top.pc = "fetch"
    /\ \E ok \in ExecuteOutcomes(Top.url, Top.cursor) :
          /\ fetchLog' = Append(fetchLog,
                 [visit |-> Top.visit, parent |-> Top.parent, url |-> Top.url,
                  depth |-> Top.depth, page |-> Top.cursor, ok |-> ok])
          /\ IF ok
             THEN /\ Becomes(NextEdge(WithTop(Machine,
                         [Top EXCEPT !.pc = "edges",
                                     !.edges = PageEdges(Top.url, Top.cursor)])))
                  /\ failAt' = failAt
             ELSE /\ Becomes(Return(Popped(Machine), FetchErrorResult(Top.all)))
                  /\ failAt' = failAt \cup {<<Top.url, Top.cursor>>}
    /\ UNCHANGED vvars
    /\ UNCHANGED avars
    /\ UNCHANGED xvars
    /\ UNCHANGED <<subIssues, issue, pageSize, topLevelIssues, maxDepth, built>>

\* one iteration of the loop over the page's edges: continue, or the recursive call
ProcessEdge ==
    /\ stack # <<>> /\ Top.pc = "edges"
    /\ LET e == Head(Top.edges)
       IN \E n \in NodeFields(e) :
             /\ issue' = (e :> n) @@ issue
             /\ IF IsCompleted(n) /\ TimesParse(n)
                THEN Becomes(Enter(WithTop(Machine,
                         [Top EXCEPT !.pc = "await",
                                     !.cur = [IssueURL |-> e, SubIssues |-> <<>>]]),
                         e, Top.depth + 1))
                ELSE Becomes(NextEdge(WithTop(Machine,
                         [Top EXCEPT !.edges = Tail(@)])))
    /\ UNCHANGED vvars
    /\ UNCHANGED avars
    /\ UNCHANGED xvars
    /\ UNCHANGED <<subIssues, pageSize, failAt, topLevelIssues, maxDepth, fetchLog, built>>

\* The provider is any sub-issue relation over Items with at most MaxEdges edges, as far
\* as a run can tell providers apart: edges leave issues at most maxDepth levels below
\* the top-level issues, the issues are numbered in the order a breadth-first walk meets
\* them (their numbers are names only). The top-level issues passed filterIssues; what
\* the provider answers about the others is met as the run goes, at most MaxFaults
\* things going wrong (an issue in a page is not a parseable COMPLETED issue, a request
\* fails).
Init ==
    /\ topLevelIssues \in RootLists
    /\ maxDepth \in -1..MaxDepth
    /\ pageSize \in {1, MaxPageSize}
    /\ \E E \in EdgeSets(MaxEdges, Range(topLevelIssues), maxDepth) :
          subIssues = [u \in Items |-> {v \in Items : <<u, v>> \in E}]
    /\ LET met == Discovery(ProviderEdges, topLevelIssues, 1)
       IN met = [k \in 1..Len(met) |-> k]
    /\ issue = [u \in Range(topLevelIssues) |-> NormalIssue]
    /\ failAt = {}
    /\ idx = 1
    /\ enrichedIssues = <<>>
    /\ stack = <<>>
    /\ result = NoResult
    /\ built = NoResult
    /\ fetchLog = <<>>
    /\ warnings = {}
    /\ nextVisit = 1
    /\ item = NoItem
    /\ violations = <<>>
    /\ issueViolations = <<>>
    /\ checked = FALSE
    /\ before = NoRet
    /\ family = NoItem
    /\ summaries = <<>>
    /\ prior = NoRet
    /\ ToolsIdle

Next ==
    \/ EnrichIssues
    \/ Execute
    \/ ProcessEdge

Spec == Init /\ [][Next]_vars

FairSpec == Spec /\ WF_vars(Next)

FreshCall_KeepsIssues(m) ==
    [m EXCEPT !.stack = <<>>, !.idx = 1, !.result = NoResult]
\* a call of enrichIssuesWithSubIssues starts from its own locals: enrichedIssues is
\* made anew, the loop starts at the first top-level issue
FreshCall(m) ==
    [m EXCEPT !.stack = <<>>, !.idx = 1, !.enrichedIssues = <<>>, !.result = NoResult]

\* enrichIssuesWithSubIssues is called a second time, on the same top-level issues against
\* the same provider, which answers the requests it has seen as it answered them before
Rebuild ==
    /\ Done /\ built = NoResult
    /\ built' = result
    /\ Becomes(EnrichFrom(FreshCall(Machine)))
    /\ UNCHANGED vvars
    /\ UNCHANGED avars
    /\ UNCHANGED xvars
    /\ UNCHANGED <<subIssues, issue, pageSize, failAt, topLevelIssues, maxDepth, fetchLog>>

RebuildNext ==
    \/ EnrichIssues
    \/ Execute
    \/ ProcessEdge
    \/ Rebuild

\* the two builds of one top-level issue
RebuildInit == Init /\ Len(topLevelIssues) = 1

SpecRebuild == RebuildInit /\ [][RebuildNext]_vars

\* ------------------------------------------------------------ rule validators

\* the unset value of EstimatedTime, ActualTime and Size
Unset == -1

LabelNames ==
    {"pbi", "PBI", "dev-pbi", "sbi", "Dev-SBI", "difficulty:low",
     "Difficulty:Medium", "Difficulty:Middle", "difficulty:high", "bug"}

\* strings.ToLower on the label names
ToLower(l) ==
    CASE l = "PBI" -> "pbi"
      [] l = "Dev-SBI" -> "dev-sbi"
      [] l = "Difficulty:Medium" -> "difficulty:medium"
      [] l = "Difficulty:Middle" -> "difficulty:middle"
      [] OTHER -> l

containsLabelCaseInsensitive(labels, target) ==
    \E label \in labels : ToLower(label) = ToLower(target)

difficultyLabels == <<"difficulty:low", "difficulty:medium", "difficulty:high">>

hasDifficultyLabel(labels) ==
    \E k \in 1..Len(difficultyLabels) :
        containsLabelCaseInsensitive(labels, difficultyLabels[k])

hasPBI(i) ==
    containsLabelCaseInsensitive(i.Labels, "pbi")
        \/ containsLabelCaseInsensitive(i.Labels, "dev-pbi")
hasSBI_Always(i) == TRUE
hasSBI(i) ==
    containsLabelCaseInsensitive(i.Labels, "sbi")
        \/ containsLabelCaseInsensitive(i.Labels, "dev-sbi")

missingFields_EstimatedOnly(i) ==
    IF i.EstimatedTime < 0 THEN <<"EstimatedTime">> ELSE <<>>
\* missingFields of both validators
missingFields(i) ==
    (IF i.EstimatedTime < 0 THEN <<"EstimatedTime">> ELSE <<>>)
        \o (IF i.ActualTime < 0 THEN <<"ActualTime">> ELSE <<>>)

\* the message texts, one value per sentence a reason is made of
SizeClause == [clause |-> "Size", fields |-> <<>>]
TimeClause(missing) == [clause |-> "Time", fields |-> missing]
DifficultyClause == [clause |-> "Difficulty", fields |-> <<>>]

reasonOf_SizeOnly(i) ==
    IF hasPBI(i) /\ i.Size < 0 THEN <<SizeClause>> ELSE <<>>
\* checkRuleViolations: the reason string built for one issue, "" being <<>>
reasonOf(i) ==
    LET r1 == IF hasPBI(i) /\ i.Size < 0 THEN <<SizeClause>> ELSE <<>>
        r2 == IF hasSBI(i) /\ Len(missingFields(i)) > 0
              THEN <<TimeClause(missingFields(i))>>
              ELSE r1
        r3 == IF hasSBI(i) /\ ~hasDifficultyLabel(i.Labels)
              THEN r2 \o <<DifficultyClause>>
              ELSE r2
    IN r3

responsible_AssigneesOnly(i) == i.Assignees
\* responsible := issue.Assignees; if len(responsible) == 0: the author alone
responsible(i) == IF Len(i.Assignees) = 0 THEN <<i.Author>> ELSE i.Assignees

\* checkRuleViolations: the RuleViolation recorded for one issue, if any
ownViolation(i) ==
    IF reasonOf(i) # <<>>
    THEN <<[IssueURL |-> i.IssueURL,
            Assignees |-> responsible(i),
            Author |-> i.Author,
            Reason |-> reasonOf(i)]>>
    ELSE <<>>

RECURSIVE Flatten(_)
Flatten(ss) == IF ss = <<>> THEN <<>> ELSE Head(ss) \o Flatten(Tail(ss))

RECURSIVE checkRecursively(_)
checkRecursively(i) ==
    ownViolation(i)
        \o Flatten([k \in 1..Len(i.SubIssues) |-> checkRecursively(i.SubIssues[k])])

checkRuleViolations(issues) ==
    Flatten([k \in 1..Len(issues) |-> checkRecursively(issues[k])])

\* the last segment of the URL; an issue's URL is modelled by its number
getIssueNumberFromURL(url) == url

\* fmt.Sprintf("Issue #%s: ...", getIssueNumberFromURL(issue.IssueURL))
IssueClause(i, c) ==
    [issue |-> getIssueNumberFromURL(i.IssueURL), clause |-> c.clause, fields |-> c.fields]

checkIssueRuleViolation(i) ==
    (IF hasPBI(i) /\ i.Size < 0 THEN <<IssueClause(i, SizeClause)>> ELSE <<>>)
        \o (IF hasSBI(i) /\ Len(missingFields(i)) > 0
            THEN <<IssueClause(i, TimeClause(missingFields(i)))>> ELSE <<>>)
        \o (IF hasSBI(i) /\ ~hasDifficultyLabel(i.Labels)
            THEN <<IssueClause(i, DifficultyClause)>> ELSE <<>>)

NumberValues == {Unset, 0, 5}
AssigneeLists == {<<>>, <<"alice">>, <<"alice", "carol">>}

\* both validators run on the issue
Validate ==
    /\ item # NoItem /\ ~checked
    /\ violations' = checkRuleViolations(<<item>>)
    /\ issueViolations' = checkIssueRuleViolation(item)
    /\ checked' = TRUE
    /\ UNCHANGED <<item, before>>
    /\ UNCHANGED bvars
    /\ UNCHANGED avars
    /\ UNCHANGED xvars

\* the issue's Size goes from unset to set and both validators run again
SetSize ==
    /\ item # NoItem /\ checked /\ before = NoRet /\ item.Size = Unset
    /\ \E v \in NumberValues \ {Unset} :
          /\ item' = [item EXCEPT !.Size = v]
          /\ violations' = checkRuleViolations(<<item'>>)
          /\ issueViolations' = checkIssueRuleViolation(item')
    /\ before' = [violations |-> violations, issueViolations |-> issueViolations]
    /\ UNCHANGED checked
    /\ UNCHANGED bvars
    /\ UNCHANGED avars
    /\ UNCHANGED xvars

ValidateInit ==
    /\ \E ls \in {S \in SUBSET LabelNames : Cardinality(S) <= MaxLabels} :
       \E sz, est, act \in NumberValues :
       \E as \in AssigneeLists :
          item = [IssueURL |-> 1, Author |-> "bob", Assignees |-> as, Labels |-> ls,
                  Size |-> sz, EstimatedTime |-> est, ActualTime |-> act,
                  SubIssues |-> <<>>]
    /\ violations = <<>>
    /\ issueViolations = <<>>
    /\ checked = FALSE
    /\ before = NoRet
    /\ family = NoItem
    /\ summaries = <<>>
    /\ prior = NoRet
    /\ ToolsIdle
    /\ topLevelIssues = <<>>
    /\ subIssues = [u \in Items |-> {}]
    /\ issue = [u \in Items |-> NormalIssue]
    /\ pageSize = 1
    /\ failAt = {}
    /\ maxDepth = 0
    /\ idx = 1
    /\ enrichedIssues = <<>>
    /\ stack = <<>>
    /\ result = NoResult
    /\ built = NoResult
    /\ fetchLog = <<>>
    /\ warnings = {}
    /\ nextVisit = 1

ValidateNext ==
    \/ Validate
    \/ SetSize

SpecValidate == ValidateInit /\ [][ValidateNext]_vars

\* ------------------------------------------------------------ aggregator

RECURSIVE Pow2(_)
Pow2(n) == IF n <= 0 THEN 1 ELSE 2 * Pow2(n - 1)

RECURSIVE RoundAt(_, _)
\* x >= 0 rounded to SignificandBits bits at an exponent of at least e: to nearest, ties
\* to the even significand
RoundAt(x, e) ==
    IF x \div Pow2(e) >= Pow2(SignificandBits) THEN RoundAt(x, e + 1)
    ELSE LET sig == x \div Pow2(e)
             r == x % Pow2(e)
         IN IF 2 * r > Pow2(e) \/ (2 * r = Pow2(e) /\ sig % 2 = 1)
            THEN (sig + 1) * Pow2(e)
            ELSE sig * Pow2(e)

\* a += b on float64 totals, the values counted in units of the smallest one
FAdd(a, b) == RoundAt(a + b, 0)

RECURSIVE sumSubIssueTimeAndViolations(_), SumFrom(_, _, _)

calculateIssueSummaries_RootIncluded(issues) ==
    [k \in 1..Len(issues) |->
        LET sub == sumSubIssueTimeAndViolations(<<issues[k]>>)
        IN [IssueURL |-> issues[k].IssueURL,
            Size |-> issues[k].Size,
            TotalEstimated |-> sub.totalEstimated,
            TotalActual |-> sub.totalActual,
            SubIssueCount |-> sub.count - 1,
            HasRuleViolation |-> Len(sub.violations) > 0,
            Violations |-> sub.violations]]

calculateIssueSummaries_SubIssuesOnly(issues) ==
    [k \in 1..Len(issues) |->
        LET sub == sumSubIssueTimeAndViolations(issues[k].SubIssues)
        IN [IssueURL |-> issues[k].IssueURL,
            Size |-> issues[k].Size,
            TotalEstimated |-> sub.totalEstimated,
            TotalActual |-> sub.totalActual,
            SubIssueCount |-> sub.count,
            HasRuleViolation |-> Len(sub.violations) > 0,
            Violations |-> sub.violations]]

\* the loop of sumSubIssueTimeAndViolations over subIssues from index k on
SumFrom(subs, k, acc) ==
    IF k > Len(subs) THEN acc
    ELSE LET i == subs[k]
             est == IF hasSBI(i) /\ i.EstimatedTime >= 0
                    THEN FAdd(acc.totalEstimated, i.EstimatedTime)
                    ELSE acc.totalEstimated
             act == IF hasSBI(i) /\ i.ActualTime >= 0
                    THEN FAdd(acc.totalActual, i.ActualTime)
                    ELSE acc.totalActual
             sub == sumSubIssueTimeAndViolations(i.SubIssues)
         IN SumFrom(subs, k + 1,
                [count |-> acc.count + sub.count,
                 totalEstimated |-> FAdd(est, sub.totalEstimated),
                 totalActual |-> FAdd(act, sub.totalActual),
                 violations |-> acc.violations \o checkIssueRuleViolation(i)
                                    \o sub.violations])

sumSubIssueTimeAndViolations_Uncounted(subs) ==
    SumFrom(subs, 1,
        [count |-> 0, totalEstimated |-> 0, totalActual |-> 0, violations |-> <<>>])
\* count := len(subIssues), the totals and the violations start empty
sumSubIssueTimeAndViolations(subs) ==
    SumFrom(subs, 1,
        [count |-> Len(subs), totalEstimated |-> 0, totalActual |-> 0,
         violations |-> <<>>])

calculateIssueSummaries(issues) ==
    [k \in 1..Len(issues) |->
        LET sub == sumSubIssueTimeAndViolations(issues[k].SubIssues)
            allViolations == checkIssueRuleViolation(issues[k]) \o sub.violations
        IN [IssueURL |-> issues[k].IssueURL,
            Size |-> issues[k].Size,
            TotalEstimated |-> sub.totalEstimated,
            TotalActual |-> sub.totalActual,
            SubIssueCount |-> sub.count,
            HasRuleViolation |-> Len(allViolations) > 0,
            Violations |-> allViolations]]

\* the smallest total at which adding one unit is lost to rounding
Big == Pow2(SignificandBits)

\* the descendants: Labels, EstimatedTime, ActualTime and Size
DescendantKinds ==
    {<<{"sbi"}, 1, Unset, 5>>,
     <<{"Dev-SBI", "difficulty:low"}, Unset, 1, Unset>>,
     <<{"sbi", "difficulty:high"}, Big, 1, Unset>>,
     <<{"pbi"}, 1, 1, Unset>>}

WorkItem(url, labels, est, act, size, subs) ==
    [IssueURL |-> url, Author |-> "bob", Assignees |-> <<>>, Labels |-> labels,
     Size |-> size, EstimatedTime |-> est, ActualTime |-> act, SubIssues |-> subs]

RECURSIVE FamilyForests(_, _), FamilyTrees(_, _)

\* the trees of n issues numbered first, first + 1, ... in the order of a pre-order walk
FamilyTrees(n, first) ==
    {WorkItem(first, d[1], d[2], d[3], d[4], subs) :
        d \in DescendantKinds, subs \in FamilyForests(n - 1, first + 1)}

\* the sequences of trees of n issues in all
FamilyForests(n, first) ==
    IF n = 0 THEN {<<>>}
    ELSE UNION {{<<t>> \o rest : t \in FamilyTrees(j, first),
                                 rest \in FamilyForests(n - j, first + j)} :
                  j \in 1..n}

\* a top-level issue: an issue that passed filterIssues, its times not yet set
RootItems(subs) ==
    {WorkItem(1, {"pbi"}, Unset, Unset, 5, subs),
     WorkItem(1, {"dev-pbi", "sbi"}, Unset, Unset, Unset, subs)}

\* root R with Size 5 and the sub-issues S1 (4, 3, difficulty:low) and S2 (unset, 2)
EndToEndFamily ==
    WorkItem(1, {"pbi"}, Unset, Unset, 5,
        <<WorkItem(2, {"sbi", "difficulty:low"}, 4, 3, Unset, <<>>),
          WorkItem(3, {"sbi"}, Unset, 2, Unset, <<>>)>>)

Families ==
    {EndToEndFamily}
      \cup UNION {RootItems(subs) :
                    subs \in UNION {FamilyForests(n, 2) : n \in 0..(NumItems - 1)}}

RECURSIVE SwapsOf(_)
\* the trees that differ from node by the exchange of two adjacent children of one node
SwapsOf(node) ==
    LET subs == node.SubIssues
    IN {[node EXCEPT !.SubIssues =
            [k \in 1..Len(subs) |-> IF k = j THEN subs[j + 1]
                                    ELSE IF k = j + 1 THEN subs[j] ELSE subs[k]]] :
          j \in 1..(Len(subs) - 1)}
         \cup UNION {{[node EXCEPT !.SubIssues[j] = t] : t \in SwapsOf(subs[j])} :
                       j \in 1..Len(subs)}

\* calculateIssueSummaries runs on the family
Summarize ==
    /\ family # NoItem /\ summaries = <<>>
    /\ summaries' = calculateIssueSummaries(<<family>>)
    /\ UNCHANGED <<family, prior>>
    /\ UNCHANGED bvars
    /\ UNCHANGED vvars
    /\ UNCHANGED xvars

\* calculateIssueSummaries runs again on the same family
SummarizeAgain ==
    /\ summaries # <<>> /\ prior = NoRet
    /\ prior' = [op |-> "again", family |-> family, summaries |-> summaries]
    /\ summaries' = calculateIssueSummaries(<<family>>)
    /\ UNCHANGED family
    /\ UNCHANGED bvars
    /\ UNCHANGED vvars
    /\ UNCHANGED xvars

\* only the root's EstimatedTime or ActualTime changes, and the summaries are recomputed
SetRootTime ==
    /\ summaries # <<>> /\ prior = NoRet
    /\ \E f \in {[family EXCEPT !.EstimatedTime = 1], [family EXCEPT !.ActualTime = Big]} :
          /\ family' = f
          /\ summaries' = calculateIssueSummaries(<<f>>)
    /\ prior' = [op |-> "root", family |-> family, summaries |-> summaries]
    /\ UNCHANGED bvars
    /\ UNCHANGED vvars
    /\ UNCHANGED xvars

\* two adjacent children of one node change places, and the summaries are recomputed
SwapChildren ==
    /\ summaries # <<>> /\ prior = NoRet
    /\ \E f \in SwapsOf(family) :
          /\ family' = f
          /\ summaries' = calculateIssueSummaries(<<f>>)
    /\ prior' = [op |-> "swap", family |-> family, summaries |-> summaries]
    /\ UNCHANGED bvars
    /\ UNCHANGED vvars
    /\ UNCHANGED xvars

AggregateInit ==
    /\ family \in Families
    /\ summaries = <<>>
    /\ prior = NoRet
    /\ ToolsIdle
    /\ item = NoItem
    /\ violations = <<>>
    /\ issueViolations = <<>>
    /\ checked = FALSE
    /\ before = NoRet
    /\ topLevelIssues = <<>>
    /\ subIssues = [u \in Items |-> {}]
    /\ issue = [u \in Items |-> NormalIssue]
    /\ pageSize = 1
    /\ failAt = {}
    /\ maxDepth = 0
    /\ idx = 1
    /\ enrichedIssues = <<>>
    /\ stack = <<>>
    /\ result = NoResult
    /\ built = NoResult
    /\ fetchLog = <<>>
    /\ warnings = {}
    /\ nextVisit = 1

AggregateNext ==
    \/ Summarize
    \/ SummarizeAgain
    \/ SetRootTime
    \/ SwapChildren

SpecAggregate == AggregateInit /\ [][AggregateNext]_vars

\* the builder, the validators and the aggregator have nothing to run on
ReportIdle ==
    /\ topLevelIssues = <<>>
    /\ subIssues = [u \in Items |-> {}]
    /\ issue = [u \in Items |-> NormalIssue]
    /\ pageSize = 1
    /\ failAt = {}
    /\ maxDepth = 0
    /\ idx = 1
    /\ enrichedIssues = <<>>
    /\ stack = <<>>
    /\ result = NoResult
    /\ built = NoResult
    /\ fetchLog = <<>>
    /\ warnings = {}
    /\ nextVisit = 1
    /\ item = NoItem
    /\ violations = <<>>
    /\ issueViolations = <<>>
    /\ checked = FALSE
    /\ before = NoRet
    /\ family = NoItem
    /\ summaries = <<>>
    /\ prior = NoRet

rvars == <<bvars, vvars, avars>>

\* ------------------------------------------------------------ filterIssues

\* instants of the closed-at times and of the date range, in order
Nil == -1
NoRange == [none |-> TRUE]
StartDate == 2
EndDate == 4

\* an issue of the project as fetchAllProjectIssues returns it; InAllowedRepo stands for
\* isRepoInAllowedList(issue.IssueURL, options.AllowedRepositories)
ProjectIssue(repo, parent, state, reason, closed, labels) ==
    [InAllowedRepo |-> repo, HasParent |-> parent, State |-> state,
     StateReason |-> reason, ClosedAt |-> closed, Labels |-> labels]

\* the issues of the project, before their URLs are given
IssueKinds ==
    {ProjectIssue(TRUE, FALSE, "CLOSED", "COMPLETED", 3, {"pbi"}),
     ProjectIssue(TRUE, FALSE, "CLOSED", "COMPLETED", StartDate, {"dev-pbi", "bug"}),
     ProjectIssue(TRUE, FALSE, "CLOSED", "COMPLETED", EndDate, {"sbi"}),
     ProjectIssue(FALSE, FALSE, "CLOSED", "COMPLETED", 3, {"pbi"}),
     ProjectIssue(TRUE, TRUE, "CLOSED", "COMPLETED", 3, {"pbi"}),
     ProjectIssue(TRUE, FALSE, "OPEN", "", Nil, {"pbi"}),
     ProjectIssue(TRUE, FALSE, "CLOSED", "NOT_PLANNED", 3, {"pbi"}),
     ProjectIssue(TRUE, FALSE, "CLOSED", "COMPLETED", StartDate - 1, {"pbi"}),
     ProjectIssue(TRUE, FALSE, "CLOSED", "COMPLETED", EndDate + 1, {"pbi"}),
     ProjectIssue(TRUE, FALSE, "CLOSED", "COMPLETED", Nil, {"pbi"})}

RECURSIVE IssueLists(_)
\* the lists of n project issues, the k-th with URL k
IssueLists(n) ==
    IF n = 0 THEN {<<>>}
    ELSE {Append(l, [IssueURL |-> n] @@ k) : l \in IssueLists(n - 1), k \in IssueKinds}

\* whether filterIssues keeps the issue
Kept(i, options) ==
    /\ i.InAllowedRepo
    /\ ~i.HasParent
    /\ ~(i.State # "CLOSED" \/ i.StateReason # "COMPLETED")
    /\ ~(/\ options.ClosedDateRange # NoRange /\ i.ClosedAt # Nil
         /\ (\/ i.ClosedAt < options.ClosedDateRange.StartDate
             \/ i.ClosedAt > options.ClosedDateRange.EndDate))

RECURSIVE filterIssues(_, _)
filterIssues(issues, options) ==
    IF issues = <<>> THEN <<>>
    ELSE (IF Kept(Head(issues), options) THEN <<Head(issues)>> ELSE <<>>)
            \o filterIssues(Tail(issues), options)

\* main: filteredTopLevelIssues := filterIssues(allIssues, filterOptions)
Filter ==
    /\ ~filterCalled
    /\ filteredTopLevelIssues' = filterIssues(allIssues, filterOptions)
    /\ filterCalled' = TRUE
    /\ UNCHANGED <<allIssues, filterOptions>>
    /\ UNCHANGED rvars
    /\ UNCHANGED <<cvars, wvars, pvars, evars, gvars, svars>>

\* START_DATE and END_DATE are both given, or the date range stays nil
FilterInit ==
    /\ allIssues \in UNION {IssueLists(n) : n \in 0..MaxIssues}
    /\ filterOptions \in {[ClosedDateRange |-> NoRange],
                           [ClosedDateRange |-> [StartDate |-> StartDate, EndDate |-> EndDate]]}
    /\ filteredTopLevelIssues = <<>>
    /\ filterCalled = FALSE
    /\ ReportIdle
    /\ FieldsIdle /\ WeeklyIdle /\ TopParentIdle /\ EvalIdle

FilterNext == Filter

SpecFilter == FilterInit /\ [][FilterNext]_vars

\* ------------------------------------------------------------ custom fields

estimatedLabel == "EstimatedTime"
actualLabel == "ActualTime"
sizeLabel == "Size"

\* a field value of a project item; HasNumber is Number != nil
FieldValue(type, name, has, number) ==
    [TypeName |-> type, Name |-> name, HasNumber |-> has, Number |-> number]

\* what the provider can return for the field called name
FieldReports(name) ==
    {<<>>,
     <<FieldValue("ProjectV2ItemFieldTextValue", name, FALSE, 0)>>,
     <<FieldValue("ProjectV2ItemFieldNumberValue", name, FALSE, 0)>>}
      \cup {<<FieldValue("ProjectV2ItemFieldNumberValue", name, TRUE, v)>> :
               v \in NumberValues \ {Unset}}

RECURSIVE customField_ZeroIsUnset(_, _, _)
customField_ZeroIsUnset(fieldValues, name, value) ==
    IF fieldValues = <<>> THEN value
    ELSE LET fv == Head(fieldValues)
         IN customField_ZeroIsUnset(Tail(fieldValues), name,
                IF /\ fv.TypeName = "ProjectV2ItemFieldNumberValue"
                   /\ fv.Name = name /\ fv.HasNumber /\ fv.Number # 0
                THEN fv.Number ELSE value)

RECURSIVE customField(_, _, _)
\* the loop over FieldValues.Nodes for one of estimatedTime, actualTime, size, which start
\* at -1.0
customField(fieldValues, name, value) ==
    IF fieldValues = <<>> THEN value
    ELSE LET fv == Head(fieldValues)
         IN customField(Tail(fieldValues), name,
                IF /\ fv.TypeName = "ProjectV2ItemFieldNumberValue"
                   /\ fv.Name = name /\ fv.HasNumber
                THEN fv.Number ELSE value)

\* subIssueInfo := IssueTimeInfo{...}
subIssueInfo(n) ==
    [IssueURL |-> 2, Author |-> "bob", Assignees |-> <<>>, Labels |-> n.Labels,
     Size |-> customField(n.FieldValues, sizeLabel, Unset),
     EstimatedTime |-> customField(n.FieldValues, estimatedLabel, Unset),
     ActualTime |-> customField(n.FieldValues, actualLabel, Unset),
     SubIssues |-> <<>>]

\* the sub-issue of a page becomes an IssueTimeInfo under its top-level issue
ReadFields ==
    /\ subIssue # NoItem /\ item = NoItem
    /\ item' = subIssueInfo(subIssue)
    /\ family' = WorkItem(1, {"pbi"}, Unset, Unset, 5, <<subIssueInfo(subIssue)>>)
    /\ UNCHANGED <<violations, issueViolations, checked, before, summaries, prior>>
    /\ UNCHANGED bvars
    /\ UNCHANGED <<fvars, cvars, wvars, pvars, evars, gvars, svars>>

FieldsInit ==
    /\ \E ls \in {{"pbi"}, {"sbi"}, {"Dev-SBI", "difficulty:low"}, {"dev-pbi", "sbi"}} :
       \E sz \in FieldReports(sizeLabel) :
       \E est \in FieldReports(estimatedLabel) :
       \E act \in FieldReports(actualLabel) :
          subIssue = [Labels |-> ls, FieldValues |-> sz \o est \o act]
    /\ ReportIdle
    /\ FilterIdle /\ WeeklyIdle /\ TopParentIdle /\ EvalIdle

FieldsNext ==
    \/ ReadFields
    \/ Validate
    \/ Summarize

SpecFields == FieldsInit /\ [][FieldsNext]_vars

\* ------------------------------------------------------------ calculateWeeklyPeriod

\* Instants are counted in ticks of JST wall-clock time from the midnight that begins a
\* Sunday; JST is a fixed zone, so a calendar day is TicksPerDay ticks everywhere.
FirstDay == 8

\* t.Weekday(), Sunday = 0
Weekday(t) == (t \div TicksPerDay) % 7
\* t.AddDate(0, 0, days)
AddDate(t, days) == t + days * TicksPerDay
\* time.Date(t.Year(), t.Month(), t.Day(), 0, 0, 0, 0, jst)
Midnight(t) == (t \div TicksPerDay) * TicksPerDay

daysSinceTargetWeekday_Plain(yesterdayWeekday, wd) == yesterdayWeekday - wd
\* (int(yesterday.Weekday()) - weekday + 7) % 7
daysSinceTargetWeekday(yesterdayWeekday, wd) == (yesterdayWeekday - wd + 7) % 7

calculateWeeklyPeriod(wd, current) ==
    LET yesterday == AddDate(current, -1)
        lastTargetWeekday ==
            Midnight(AddDate(yesterday,
                             -daysSinceTargetWeekday(Weekday(yesterday), wd)))
    IN [StartDate |-> lastTargetWeekday,
        EndDate |-> AddDate(lastTargetWeekday, 7),
        Weekday |-> wd]

\* main: weeklyPeriod := calculateWeeklyPeriod(wd)
CalculateWeekly ==
    /\ weeklyPeriod = NoRet
    /\ weeklyPeriod' = calculateWeeklyPeriod(weekday, now)
    /\ UNCHANGED <<now, weekday>>
    /\ UNCHANGED rvars
    /\ UNCHANGED <<fvars, cvars, pvars, evars, gvars, svars>>

\* WEEKDAY is 0..6 once main has turned 7 into 0
WeeklyInit ==
    /\ now \in (FirstDay * TicksPerDay)..((FirstDay + NumDays) * TicksPerDay - 1)
    /\ weekday \in 0..6
    /\ weeklyPeriod = NoRet
    /\ ReportIdle
    /\ FilterIdle /\ FieldsIdle /\ TopParentIdle /\ EvalIdle

WeeklyNext == CalculateWeekly

SpecWeekly == WeeklyInit /\ [][WeeklyNext]_vars

\* ------------------------------------------------------------ getTopParentIssue

\* the numbers of the repository's issues
IssueNumbers == 1..NumItems

\* The Parent field client.Query leaves in q for issue n. For an issue without parent the
\* answer carries parent: null; the decoder of the GraphQL client is not part of this
\* repository, and either it resets q's Parent to the zero value or it leaves what the
\* previous answer put there.
DecodedParent(n) ==
    IF parentOf[n] # 0 THEN {parentOf[n]}
    ELSE {0} \cup (IF q = NoRet THEN {} ELSE {q.Parent})

Visited_Never(current) == FALSE
\* visitedIssues[current]
Visited(current) == current \in visitedIssues

\* one iteration of the loop of getTopParentIssue: the query and what follows it
QueryParent ==
    /\ topParent = NoRet
    /\ queryLog' = Append(queryLog, issueNumber)
    /\ \/ \* client.Query returns an error
          /\ topParent' = [err |-> TRUE, Number |-> 0]
          /\ UNCHANGED <<q, visitedIssues, issueNumber>>
       \/ \E p \in DecodedParent(issueNumber) :
             LET current == issueNumber
             IN /\ q' = [Number |-> current, Parent |-> p]
                /\ IF Visited(current)
                   THEN /\ topParent' = [err |-> FALSE, Number |-> current]
                        /\ UNCHANGED <<visitedIssues, issueNumber>>
                   ELSE /\ visitedIssues' = visitedIssues \cup {current}
                        /\ IF p = 0 \/ p <= 0
                           THEN /\ topParent' = [err |-> FALSE, Number |-> current]
                                /\ UNCHANGED issueNumber
                           ELSE /\ issueNumber' = p
                                /\ UNCHANGED topParent
    /\ UNCHANGED parentOf
    /\ UNCHANGED rvars
    /\ UNCHANGED <<fvars, cvars, wvars, evars, gvars, svars>>

\* any parent relation over the issues, cyclic ones included, and any start issue
TopParentInit ==
    /\ parentOf \in [IssueNumbers -> {0} \cup IssueNumbers]
    /\ issueNumber \in IssueNumbers
    /\ q = NoRet
    /\ visitedIssues = {}
    /\ topParent = NoRet
    /\ queryLog = <<>>
    /\ ReportIdle
    /\ FilterIdle /\ FieldsIdle /\ WeeklyIdle /\ EvalIdle

TopParentNext == QueryParent

SpecTopParent == TopParentInit /\ [][TopParentNext]_vars /\ WF_vars(TopParentNext)

\* ------------------------------------------------- processIssue (evalv3)

\* the nested activations of processIssue that are followed
MaxCalls == NumItems + 2

RECURSIVE RepoBodies(_, _)
\* the bodies of the issues 1..n with at most budget matches in all; a number written
\* as "Related to #n" is matched by two patterns and stands twice in its body
RepoBodies(n, budget) ==
    IF n = 0 THEN {<<>>}
    ELSE UNION {{Append(others, body) : others \in RepoBodies(n - 1, budget - k),
                                        body \in [1..k -> Items]} :
                  k \in 0..budget}

\* processIssue(issue) on entry: issueInfo without its SubIssues, and the matches
\* findSubIssues has to walk with its own, empty, processedIssues
Activation(n) ==
    [Number |-> n, matches |-> bodies[n], processedIssues |-> {}, SubIssues |-> <<>>]

\* main calls processIssue on an issue that is not a pull request
ProcessIssue ==
    /\ calls = <<>> /\ issueInfo = NoRet
    /\ \E n \in Items \ pulls : calls' = <<Activation(n)>>
    /\ UNCHANGED <<bodies, pulls, issueInfo>>
    /\ UNCHANGED rvars
    /\ UNCHANGED <<fvars, cvars, wvars, pvars, gvars, svars>>

\* one match of the loops of findSubIssues, in the innermost activation
FindSubIssue ==
    /\ calls # <<>>
    /\ LET top == calls[Len(calls)]
       IN /\ top.matches # <<>>
          /\ LET num == Head(top.matches)
             IN IF num \in top.processedIssues \/ num \in pulls
                THEN \* seen by this call, or fetched and found to be a pull request
                     calls' = [calls EXCEPT ![Len(calls)].matches = Tail(@)]
                ELSE \* client.Issues.Get answers, and processIssue is called on it
                     /\ Len(calls) < MaxCalls
                     /\ calls' = Append(calls, Activation(num))
    /\ UNCHANGED <<bodies, pulls, issueInfo>>
    /\ UNCHANGED rvars
    /\ UNCHANGED <<fvars, cvars, wvars, pvars, gvars, svars>>

\* findSubIssues has walked every match: processIssue returns to the loop that called
\* it, which appends the result and marks the number as processed
ReturnIssue ==
    /\ calls # <<>>
    /\ LET top == calls[Len(calls)]
           info == [Number |-> top.Number, SubIssues |-> top.SubIssues]
       IN /\ top.matches = <<>>
          /\ IF Len(calls) = 1
             THEN /\ issueInfo' = info
                  /\ calls' = <<>>
             ELSE /\ calls' = [SubSeq(calls, 1, Len(calls) - 1) EXCEPT
                                 ![Len(calls) - 1] =
                                     [@ EXCEPT !.matches = Tail(@),
                                               !.processedIssues = @ \cup {top.Number},
                                               !.SubIssues = Append(@, info)]]
                  /\ UNCHANGED issueInfo
    /\ UNCHANGED <<bodies, pulls>>
    /\ UNCHANGED rvars
    /\ UNCHANGED <<fvars, cvars, wvars, pvars, gvars, svars>>

\* any bodies, bodies that mention each other or themselves included
ProcessInit ==
    /\ bodies \in RepoBodies(NumItems, MaxEdges)
    /\ pulls \in {{}, {NumItems}}
    /\ calls = <<>>
    /\ issueInfo = NoRet
    /\ ReportIdle
    /\ FilterIdle /\ FieldsIdle /\ WeeklyIdle /\ TopParentIdle
    /\ GetAllIdle /\ StatsIdle

ProcessNext ==
    \/ ProcessIssue
    \/ FindSubIssue
    \/ ReturnIssue

SpecProcess == ProcessInit /\ [][ProcessNext]_vars /\ WF_vars(ProcessNext)

\* ------------------------------------------------- getAllIssues (evalv3)

\* the issues of page p, told apart by page and place
PageIssues(p, size) == [k \in 1..size |-> <<p, k>>]

\* the issue lists of n pages, a page holding up to MaxPageSize issues
PageLists(n) ==
    {[p \in 1..n |-> PageIssues(p, sizes[p])] : sizes \in [1..n -> 0..MaxPageSize]}

\* the page the provider serves for opts.Page: a zero Page is left out of the request
\* and the first page is served
PageOf(page) == IF page = 0 THEN 1 ELSE page

\* resp.NextPage: zero on the last page
NextPage(page) == IF PageOf(page) < Len(pages) THEN PageOf(page) + 1 ELSE 0

appendIssues_Replace(all, issues) == issues
\* allIssues = append(allIssues, issues...)
appendIssues(all, issues) == all \o issues

\* one iteration of the loop of getAllIssues
ListPage ==
    /\ pages # <<>> /\ listReturn = NoRet
    /\ \/ \* WaitForRateLimit returns an error: break
          /\ listReturn' = [ended |-> "RateLimit", issues |-> listedIssues]
          /\ UNCHANGED <<opts, listedIssues, listFaults, listLog>>
       \/ \* client.Issues.ListByRepo returns an error: sleep, continue
          /\ listFaults < MaxFaults
          /\ listFaults' = listFaults + 1
          /\ listLog' = Append(listLog, [page |-> opts, ok |-> FALSE])
          /\ UNCHANGED <<opts, listedIssues, listReturn>>
       \/ \* the page arrives
          /\ listLog' = Append(listLog, [page |-> opts, ok |-> TRUE])
          /\ listedIssues' = appendIssues(listedIssues, pages[PageOf(opts)])
          /\ IF NextPage(opts) = 0
             THEN /\ listReturn' = [ended |-> "NextPage", issues |-> listedIssues']
                  /\ UNCHANGED opts
             ELSE /\ opts' = NextPage(opts)
                  /\ UNCHANGED listReturn
          /\ UNCHANGED listFaults
    /\ UNCHANGED pages
    /\ UNCHANGED rvars
    /\ UNCHANGED <<fvars, cvars, wvars, pvars, evars, svars>>

GetAllInit ==
    /\ pages \in UNION {PageLists(n) : n \in 1..MaxPages}
    /\ opts = 0
    /\ listedIssues = <<>>
    /\ listReturn = NoRet
    /\ listFaults = 0
    /\ listLog = <<>>
    /\ ReportIdle
    /\ FilterIdle /\ FieldsIdle /\ WeeklyIdle /\ TopParentIdle
    /\ ProcessIdle /\ StatsIdle

GetAllNext == ListPage

SpecGetAll == GetAllInit /\ [][GetAllNext]_vars

\* --------------------------------------- calculateIssueHierarchyStats

\* depthCounts[depth]++ on a map in which a missing key reads as zero
Incr(counts, depth) ==
    IF depth \in DOMAIN counts THEN [counts EXCEPT ![depth] = @ + 1]
    ELSE counts @@ (depth :> 1)

RECURSIVE countRecursively(_, _, _), CountFrom(_, _, _, _)

\* the loop of countRecursively over issues from index k on
CountFrom(issues, k, depth, acc) ==
    IF k > Len(issues) THEN acc
    ELSE LET counted == Incr(acc.depthCounts, depth)
             below == IF Len(issues[k].SubIssues) > 0
                      THEN countRecursively(issues[k].SubIssues, depth + 1, counted)
                      ELSE [count |-> 0, depthCounts |-> counted]
         IN CountFrom(issues, k + 1, depth,
                [count |-> acc.count + 1 + below.count,
                 depthCounts |-> below.depthCounts])

countRecursively_Flat(issues, depth, counts) ==
    [count |-> Len(issues),
     depthCounts |-> IF depth \in DOMAIN counts
                     THEN [counts EXCEPT ![depth] = @ + Len(issues)]
                     ELSE counts @@ (depth :> Len(issues))]
\* the closure countRecursively; the map depthCounts it writes to is passed along
countRecursively(issues, depth, counts) ==
    CountFrom(issues, 1, depth, [count |-> 0, depthCounts |-> counts])

RECURSIVE StatsFrom(_, _, _)
\* the loop of calculateIssueHierarchyStats over the top-level issues from index k on
StatsFrom(issues, k, acc) ==
    IF k > Len(issues) THEN acc
    ELSE LET counted == Incr(acc.depthCounts, 0)
             below == IF Len(issues[k].SubIssues) > 0
                      THEN countRecursively(issues[k].SubIssues, 1, counted)
                      ELSE [count |-> 0, depthCounts |-> counted]
         IN StatsFrom(issues, k + 1,
                [totalSubIssues |-> acc.totalSubIssues + below.count,
                 depthCounts |-> below.depthCounts])

calculateIssueHierarchyStats(issues) ==
    LET stats == StatsFrom(issues, 1, [totalSubIssues |-> 0, depthCounts |-> <<>>])
    IN [totalIssues |-> Len(issues),
        totalSubIssues |-> stats.totalSubIssues,
        depthCounts |-> stats.depthCounts]

\* printIssueHierarchyStats(enrichedIssues) of main
HierarchyStats ==
    /\ hierarchyStats = NoRet
    /\ hierarchyStats' = calculateIssueHierarchyStats(families)
    /\ UNCHANGED <<families, issueSummaries>>
    /\ UNCHANGED rvars
    /\ UNCHANGED <<fvars, cvars, wvars, pvars, evars, gvars>>

\* summaries := calculateIssueSummaries(enrichedIssues) of main, after the statistics
IssueSummaries ==
    /\ hierarchyStats # NoRet /\ issueSummaries = NoRet
    /\ issueSummaries' = [summaries |-> calculateIssueSummaries(families)]
    /\ UNCHANGED <<families, hierarchyStats>>
    /\ UNCHANGED rvars
    /\ UNCHANGED <<fvars, cvars, wvars, pvars, evars, gvars>>

\* every list of families of up to NumItems issues in all, the empty list included
StatsInit ==
    /\ families \in UNION {FamilyForests(n, 1) : n \in 0..NumItems}
    /\ hierarchyStats = NoRet
    /\ issueSummaries = NoRet
    /\ ReportIdle
    /\ FilterIdle /\ FieldsIdle /\ WeeklyIdle /\ TopParentIdle
    /\ ProcessIdle /\ GetAllIdle

StatsNext ==
    \/ HierarchyStats
    \/ IssueSummaries

SpecStats == StatsInit /\ [][StatsNext]_vars

\* ------------------------------------------------------------ families

RECURSIVE NodesOf(_)
\* the nodes of a forest (a sequence of IssueTimeInfo), at every level
NodesOf(forest) ==
    UNION {{forest[k]} \cup NodesOf(forest[k].SubIssues) : k \in 1..Len(forest)}

URLsOf(forest) == {n.IssueURL : n \in NodesOf(forest)}

RECURSIVE Height(_)
\* levels of a forest: 0 for no node
Height(forest) ==
    IF forest = <<>> THEN 0
    ELSE LET hs == {Height(forest[k].SubIssues) : k \in 1..Len(forest)}
         IN 1 + CHOOSE h \in hs : \A g \in hs : g <= h

RECURSIVE PathRepeats(_, _)
\* some root-to-leaf path through node n repeats a URL of seen or of itself
PathRepeats(n, seen) ==
    \/ n.IssueURL \in seen
    \/ \E k \in 1..Len(n.SubIssues) :
          PathRepeats(n.SubIssues[k], seen \cup {n.IssueURL})

\* every forest the program holds: stored families, lists under construction
Forests ==
    {enrichedIssues}
      \cup {stack[k].all : k \in 1..Len(stack)}
      \cup (IF Done THEN {result.issues} ELSE {})

LogIdx == 1..Len(fetchLog)

Reported(u) == u \in DOMAIN issue
ClosedCompleted(u) ==
    Reported(u) /\ issue[u].State = "CLOSED" /\ issue[u].StateReason = "COMPLETED"
WellTimed(u) ==
    Reported(u) /\ issue[u].CreatedAt = "rfc3339" /\ issue[u].ClosedAt \in {"nil", "rfc3339"}

\* the issues reachable from r along sub-issue edges that only enter COMPLETED issues
CompletedReach(r) ==
    ReachFrom({e \in ProviderEdges : ClosedCompleted(e[2])}, {r})

ChainScenario ==
    /\ topLevelIssues = <<1>>
    /\ subIssues = [u \in Items |-> IF u \in 1..3 THEN {u + 1} ELSE {}]
    /\ \A u \in DOMAIN issue : issue[u] = NormalIssue
    /\ failAt = {}
    /\ maxDepth = 2

Leaf(u) == [IssueURL |-> u, SubIssues |-> <<>>]
Node(u, subs) == [IssueURL |-> u, SubIssues |-> subs]

\* C2: for maxDepth >= 1 every node of a built family lies at depth <= maxDepth below its
\* root and no fetch is issued at depth maxDepth or beyond; on the chain 1 -> 2 -> 3 -> 4
\* with maxDepth = 2 the family is 1, 2, 3 and no fetch for 4 is ever made.
C2_DepthBound ==
    maxDepth >= 1 =>
        /\ \A j \in LogIdx : fetchLog[j].depth < maxDepth
        /\ \A k \in 1..Len(enrichedIssues) :
              Height(enrichedIssues[k].SubIssues) <= maxDepth
        /\ \A k \in 1..Len(stack) :
              Height(stack[k].all) <= maxDepth - stack[k].depth
        /\ (ChainScenario /\ Done) =>
              /\ result.issues = <<Node(1, <<Node(2, <<Leaf(3)>>)>>)>>
              /\ \A j \in LogIdx : fetchLog[j].url # 4

C2_Witness == ChainScenario /\ Done /\ Len(fetchLog) = 2

\* ---------------------------------------------------------------- C3
RECURSIVE GeomSum(_, _)
\* 1 + k + ... + k^(n-1)
GeomSum(k, n) == IF n <= 0 THEN 0 ELSE 1 + k * GeomSum(k, n - 1)

MaxOf(S) == IF S = {} THEN 0 ELSE CHOOSE m \in S : \A x \in S : x <= m

\* a bound on the fetches of one run: every visit above maxDepth pages through at most
\* the widest connection
FetchBound ==
    Len(topLevelIssues)
      * MaxOf({NumPages(u) : u \in Items})
      * GeomSum(MaxOf({Cardinality(subIssues[u]) : u \in Items}), maxDepth)

Cyclic == \E u \in Reachable : u \in ReachFrom(ProviderEdges, subIssues[u])

\* C3: the build terminates for every provider, cyclic ones included: the recursion never
\* holds more than maxDepth activations past their depth check, the fetches stay within a
\* bound fixed by the provider and maxDepth, and the run reaches its return.
C3_Terminates ==
    /\ [](Len(stack) <= Max(maxDepth, 0) /\ Len(fetchLog) <= FetchBound)
    /\ <>Done

\* a finished build over a provider that reports an issue below itself, after it recursed
\* into the repeated issue
C3_Witness ==
    /\ Done /\ Cyclic /\ maxDepth >= 2
    /\ \E j \in LogIdx : fetchLog[j].depth > 0 /\ fetchLog[j].url = topLevelIssues[1]

\* ---------------------------------------------------------------- C4
\* C4: no URL occurs twice on a root-to-leaf path of a built family.
C4_NoRepeatOnPath ==
    \A k \in 1..Len(enrichedIssues) : ~PathRepeats(enrichedIssues[k], {})

\* ---------------------------------------------------------------- C5
FetchFails(u) == \E c \in 1..NumPages(u) : <<u, c>> \in failAt

RECURSIVE FamilyWithoutFailing(_, _)
\* the sub-issue forest of u at depth d over the provider in which every issue whose
\* fetch fails has no sub-issues at all
FamilyWithoutFailing(u, d) ==
    IF d >= maxDepth \/ FetchFails(u) THEN <<>>
    ELSE LET kept == SelectSeq(Edges(u), LAMBDA v : ClosedCompleted(v) /\ WellTimed(v))
         IN [k \in 1..Len(kept) |->
                Node(kept[k], FamilyWithoutFailing(kept[k], d + 1))]

\* C5: a fetch error on any page of a node is not fatal: the build returns without error,
\* one family per root, each exactly the family of the provider in which the failing nodes
\* have no sub-issues, and every failed fetch is logged as a warning naming its issue.
C5_FetchErrorIsLeaf ==
    /\ warnings \subseteq {fetchLog[j].url : j \in {i \in LogIdx : ~fetchLog[i].ok}}
    /\ Done =>
          /\ ~result.err
          /\ \A j \in LogIdx : ~fetchLog[j].ok => fetchLog[j].url \in warnings
          /\ Len(result.issues) = Len(topLevelIssues)
          /\ \A k \in 1..Len(topLevelIssues) :
                result.issues[k] =
                    Node(topLevelIssues[k], FamilyWithoutFailing(topLevelIssues[k], 0))

\* a finished build in which the fetch of a child of the root failed on its second page,
\* after its first page had delivered a child that was kept
C5_Witness ==
    /\ Done
    /\ \E j \in LogIdx :
          /\ ~fetchLog[j].ok /\ fetchLog[j].page = 2 /\ fetchLog[j].depth = 1
          /\ Leaf(fetchLog[j].url) \in Range(result.issues[1].SubIssues)
          /\ \E v \in Range(PageEdges(fetchLog[j].url, 1)) :
                ClosedCompleted(v) /\ WellTimed(v)

\* ---------------------------------------------------------------- C6
\* C6: every page of a node is fetched before any fetch for a child of that node: no
\* fetch of a visit follows a fetch of one of its children.
C6_DrainedBeforeRecursion ==
    \A j, k \in LogIdx :
        j < k => fetchLog[j].parent # fetchLog[k].visit

\* ---------------------------------------------------------------- C7
\* C7: no retry: after a failed fetch of a visit no further fetch is made for that visit,
\* and the pages of a visit are requested once each, in order.
C7_NoRetry ==
    \A j, k \in LogIdx :
        (j < k /\ fetchLog[j].visit = fetchLog[k].visit)
            => fetchLog[j].ok /\ fetchLog[j].page < fetchLog[k].page

\* a finished build with a failed fetch that was followed by other fetches, and a visit
\* that went through two pages
C7_Witness ==
    /\ Done
    /\ \E j, k \in LogIdx : j < k /\ ~fetchLog[j].ok
    /\ \E j, k \in LogIdx : j < k /\ fetchLog[j].visit = fetchLog[k].visit

\* ---------------------------------------------------------------- C8
\* C8: a maxDepth <= 0 is rejected: the build ends in an error and issues no fetch.
C8_NonPositiveRejected ==
    (Done /\ maxDepth <= 0) => (result.err /\ fetchLog = <<>>)

\* ---------------------------------------------------------------- C9
EpicClass(i) == \E l \in i.Labels : ToLower(l) \in {"pbi", "dev-pbi"}
StoryClass(i) == \E l \in i.Labels : ToLower(l) \in {"sbi", "dev-sbi"}
DifficultySet(i) ==
    \E l \in i.Labels : ToLower(l) \in {"difficulty:low", "difficulty:medium", "difficulty:high"}

\* the clauses the rules trigger for an issue
Triggered(i) ==
    (IF EpicClass(i) /\ i.Size = Unset THEN {"Size missing"} ELSE {})
      \cup (IF StoryClass(i) /\ i.EstimatedTime = Unset THEN {"Estimated missing"} ELSE {})
      \cup (IF StoryClass(i) /\ i.ActualTime = Unset THEN {"Actual missing"} ELSE {})
      \cup (IF StoryClass(i) /\ ~DifficultySet(i) THEN {"Difficulty missing"} ELSE {})

\* the clauses a reason states, with the number of times it states each
Stated(reason, c) ==
    Cardinality({k \in 1..Len(reason) :
        \/ c = "Size missing" /\ reason[k].clause = "Size"
        \/ c = "Estimated missing" /\ reason[k].clause = "Time"
              /\ "EstimatedTime" \in Range(reason[k].fields)
        \/ c = "Actual missing" /\ reason[k].clause = "Time"
              /\ "ActualTime" \in Range(reason[k].fields)
        \/ c = "Difficulty missing" /\ reason[k].clause = "Difficulty"})

\* the reasons of a list of RuleViolation, joined
ReasonsOf(vs) == Flatten([k \in 1..Len(vs) |-> vs[k].Reason])

ClauseNames == {"Size missing", "Estimated missing", "Actual missing", "Difficulty missing"}

\* C9: an issue with no triggered clause gets no violation; any other issue gets exactly
\* one RuleViolation whose reason states every triggered clause, and the per-issue list of
\* checkIssueRuleViolation states every triggered clause too.
C9_OneViolationAllClauses ==
    checked =>
        /\ Triggered(item) = {} => violations = <<>> /\ issueViolations = <<>>
        /\ Triggered(item) # {} =>
              /\ Len(violations) = 1
              /\ \A c \in Triggered(item) : Stated(violations[1].Reason, c) >= 1
              /\ \A c \in Triggered(item) : Stated(issueViolations, c) >= 1

\* ---------------------------------------------------------------- C10
\* C10: "Size missing" is stated exactly once iff the issue is Epic-class with Size unset,
\* and setting only Size removes that clause and changes no other clause.
C10_SizeClause ==
    /\ checked =>
          /\ Stated(issueViolations, "Size missing")
                = (IF EpicClass(item) /\ item.Size = Unset THEN 1 ELSE 0)
          /\ Stated(ReasonsOf(violations), "Size missing")
                = (IF EpicClass(item) /\ item.Size = Unset THEN 1 ELSE 0)
    /\ before # NoRet =>
          /\ Stated(issueViolations, "Size missing") = 0
          /\ Stated(ReasonsOf(violations), "Size missing") = 0
          /\ \A c \in ClauseNames \ {"Size missing"} :
                /\ Stated(issueViolations, c) = Stated(before.issueViolations, c)
                /\ Stated(ReasonsOf(violations), c)
                      = Stated(ReasonsOf(before.violations), c)

DocumentDifficulty(i) ==
    \E l \in i.Labels :
        ToLower(l) \in {"difficulty:low", "difficulty:middle", "difficulty:high"}

\* C12: a Story-class issue carrying one of Difficulty:Low, Difficulty:Middle or
\* Difficulty:High gets no difficulty clause from either validator.
C12_MiddleSatisfies ==
    (checked /\ StoryClass(item) /\ DocumentDifficulty(item)) =>
        /\ Stated(issueViolations, "Difficulty missing") = 0
        /\ Stated(ReasonsOf(violations), "Difficulty missing") = 0

\* ---------------------------------------------------------------- C13
\* C13: every RuleViolation names at least one responsible identity: the issue's
\* assignees when there are any, the author alone otherwise.
C13_ResponsibleParties ==
    checked =>
        \A k \in 1..Len(violations) :
            /\ Len(violations[k].Assignees) >= 1
            /\ violations[k].Assignees
                  = (IF item.Assignees # <<>> THEN item.Assignees ELSE <<item.Author>>)

\* a violation of an issue without assignees
C13_Witness ==
    /\ checked /\ Len(violations) = 1 /\ item.Assignees = <<>>
    /\ violations[1].Assignees = <<"bob">>

\* ------------------------------------------------------------ summaries

\* the descendants of the family's root
Descendants == NodesOf(family.SubIssues)

\* the summary calculateIssueSummaries made of the family
Summary == summaries[1]
Summarized == summaries # <<>>

\* ---------------------------------------------------------------- C14
\* C14: for a family of N nodes the summary's SubIssueCount is N - 1: every descendant is
\* counted once whatever its labels, and the root is not counted.
C14_DescendantCount ==
    Summarized =>
        Summary.SubIssueCount = Cardinality(URLsOf(<<family>>)) - 1

\* a summarized family of four nodes on three levels, descendants of both classes: 3
C14_Witness ==
    /\ Summarized
    /\ Cardinality(URLsOf(<<family>>)) = 4 /\ Height(<<family>>) = 3
    /\ \E a, b \in Descendants : EpicClass(a) /\ ~StoryClass(a) /\ StoryClass(b)
    /\ Summary.SubIssueCount = 3

\* ---------------------------------------------------------------- C15
\* the descendants that are Story-class and have the field set, each with its value
Contributions(field) ==
    {<<n.IssueURL, n[field]>> : n \in {m \in Descendants : StoryClass(m) /\ m[field] # Unset}}

RECURSIVE SumOf(_)
\* the sum of the values of a set of contributions
SumOf(ps) ==
    IF ps = {} THEN 0
    ELSE LET p == CHOOSE c \in ps : TRUE IN p[2] + SumOf(ps \ {p})

RECURSIVE WithoutOtherTimes(_)
\* the family, the times of every descendant that is not Story-class unset
WithoutOtherTimes(node) ==
    [node EXCEPT !.SubIssues =
        [k \in 1..Len(node.SubIssues) |->
            LET sub == WithoutOtherTimes(node.SubIssues[k])
            IN IF StoryClass(sub) THEN sub
               ELSE [sub EXCEPT !.EstimatedTime = Unset, !.ActualTime = Unset]]]

\* C15: TotalEstimated is the sum of EstimatedTime over exactly the Story-class descendants
\* that have it set, and TotalActual likewise: the totals are that sum whenever the sum is
\* exact in the totals' floating-point format, and in every case they are the totals of
\* the same family with the times of its other descendants unset.
C15_StoryTotals ==
    Summarized =>
        /\ SumOf(Contributions("EstimatedTime")) <= Big =>
              Summary.TotalEstimated = SumOf(Contributions("EstimatedTime"))
        /\ SumOf(Contributions("ActualTime")) <= Big =>
              Summary.TotalActual = SumOf(Contributions("ActualTime"))
        /\ \A other \in {calculateIssueSummaries(<<WithoutOtherTimes(family)>>)[1]} :
              /\ Summary.TotalEstimated = other.TotalEstimated
              /\ Summary.TotalActual = other.TotalActual

\* a summarized family with an Epic-class descendant whose EstimatedTime is set, a
\* Story-class one whose EstimatedTime is unset and a Story-class one whose EstimatedTime
\* is set: only the last one is in the total
C15_Witness ==
    /\ Summarized
    /\ \E a, b, c \in Descendants :
          /\ ~StoryClass(a) /\ EpicClass(a) /\ a.EstimatedTime = 1
          /\ StoryClass(b) /\ b.EstimatedTime = Unset /\ b.ActualTime = 1
          /\ StoryClass(c) /\ c.EstimatedTime = 1 /\ c.ActualTime = Unset
    /\ Summary.TotalEstimated = 1 /\ Summary.TotalActual = 1

\* ---------------------------------------------------------------- C16
RECURSIVE Occurrences(_, _)
\* how many times x occurs in the sequence seq
Occurrences(seq, x) ==
    IF seq = <<>> THEN 0
    ELSE (IF Head(seq) = x THEN 1 ELSE 0) + Occurrences(Tail(seq), x)

\* the entries the rules give the node n: one per triggered clause, under n's number
DueOf(n) ==
    (IF EpicClass(n) /\ n.Size = Unset
     THEN {[issue |-> n.IssueURL, clause |-> "Size", fields |-> <<>>]} ELSE {})
      \cup (IF StoryClass(n) /\ (n.EstimatedTime = Unset \/ n.ActualTime = Unset)
            THEN {[issue |-> n.IssueURL, clause |-> "Time",
                   fields |-> (IF n.EstimatedTime = Unset THEN <<"EstimatedTime">> ELSE <<>>)
                                \o (IF n.ActualTime = Unset THEN <<"ActualTime">> ELSE <<>>)]}
            ELSE {})
      \cup (IF StoryClass(n) /\ ~DifficultySet(n)
            THEN {[issue |-> n.IssueURL, clause |-> "Difficulty", fields |-> <<>>]} ELSE {})

\* C16: the summary's Violations are the multiset union of the validator's results for
\* the root and for every descendant: each node's result is there once, nothing else is.
C16_ViolationsUnion ==
    Summarized =>
        /\ \A n \in NodesOf(<<family>>) : \A v \in Range(checkIssueRuleViolation(n)) :
              Occurrences(Summary.Violations, v) = 1
        /\ \A n \in NodesOf(<<family>>) : \A v \in DueOf(n) :
              Occurrences(Summary.Violations, v) = 1
        /\ Range(Summary.Violations) = UNION {DueOf(n) : n \in NodesOf(<<family>>)}
        /\ Summary.HasRuleViolation = (Summary.Violations # <<>>)

\* a summarized family on three levels whose root, a child and a grandchild are each in
\* violation, and one descendant is not
C16_Witness ==
    /\ Summarized /\ Height(<<family>>) = 3
    /\ DueOf(family) # {}
    /\ \E c \in Range(family.SubIssues) :
          /\ DueOf(c) # {}
          /\ \E g \in Range(c.SubIssues) : DueOf(g) # {}
    /\ \E n \in Descendants : DueOf(n) = {}
    /\ Len(Summary.Violations) >= 3

\* ---------------------------------------------------------------- C17
\* C17: the root's own times never enter the aggregate: after only the root's
\* EstimatedTime or ActualTime has changed, SubIssueCount, TotalEstimated and TotalActual
\* are what they were; and the summary's Size is always the root's own Size.
C17_RootNotAggregated ==
    /\ Summarized => Summary.Size = family.Size
    /\ (Summarized /\ prior # NoRet /\ prior.op = "root") =>
          /\ family.SubIssues = prior.family.SubIssues
          /\ Summary.SubIssueCount = prior.summaries[1].SubIssueCount
          /\ Summary.TotalEstimated = prior.summaries[1].TotalEstimated
          /\ Summary.TotalActual = prior.summaries[1].TotalActual

\* a Story-class root whose EstimatedTime went from unset to set, over Story-class
\* children with times of their own and a child whose Size differs from the root's
C17_Witness ==
    /\ Summarized /\ prior # NoRet /\ prior.op = "root"
    /\ StoryClass(family)
    /\ prior.family.EstimatedTime = Unset /\ family.EstimatedTime = 1
    /\ Summary.TotalEstimated > 1 /\ Summary.TotalActual >= 1
    /\ family.Size = Unset /\ \E c \in Descendants : c.Size = 5

\* ---------------------------------------------------------------- C18
\* the numbers of the end-to-end family's summary
EndToEndNumbers ==
    /\ Summary.Size = 5
    /\ Summary.TotalEstimated = 4 /\ Summary.TotalActual = 5
    /\ Summary.SubIssueCount = 2

\* C18: for root R (Epic-class, Size 5) with S1 (Story-class, 4, 3, difficulty:low) and S2
\* (Story-class, EstimatedTime unset, ActualTime 2, no difficulty label) the summary has
\* Size 5, TotalEstimated 4, TotalActual 5, SubIssueCount 2 and a Violations list of
\* exactly one entry, for S2, stating both Estimated missing and Difficulty missing.
C18_EndToEnd ==
    (Summarized /\ family = EndToEndFamily) =>
        /\ EndToEndNumbers
        /\ Len(Summary.Violations) = 1
        /\ Summary.Violations[1].issue = 3
        /\ Stated(Summary.Violations, "Estimated missing") = 1
        /\ Stated(Summary.Violations, "Difficulty missing") = 1

\* ---------------------------------------------------------------- C19
\* the two sequences hold the same elements the same number of times
SameMultiset(a, b) ==
    /\ Len(a) = Len(b)
    /\ \A x \in Range(a) \cup Range(b) : Occurrences(a, x) = Occurrences(b, x)

\* the part of the order independence that does not involve the totals
C19_CountAndViolations ==
    (Summarized /\ prior # NoRet /\ prior.op = "swap") =>
        /\ Summary.SubIssueCount = prior.summaries[1].SubIssueCount
        /\ SameMultiset(Summary.Violations, prior.summaries[1].Violations)

\* C19: exchanging children at any node leaves SubIssueCount, TotalEstimated, TotalActual
\* and the Violations as a multiset unchanged, and calculateIssueSummaries run twice on
\* the same family gives identical summaries.
C19_OrderIndependent ==
    /\ (Summarized /\ prior # NoRet /\ prior.op = "again") => summaries = prior.summaries
    /\ C19_CountAndViolations
    /\ (Summarized /\ prior # NoRet /\ prior.op = "swap") =>
          /\ Summary.TotalEstimated = prior.summaries[1].TotalEstimated
          /\ Summary.TotalActual = prior.summaries[1].TotalActual

URLSeq(issues) == [k \in 1..Len(issues) |-> issues[k].IssueURL]

\* a is b with some elements left out, the others in b's order
RECURSIVE IsSubsequence(_, _)
IsSubsequence(a, b) ==
    IF a = <<>> THEN TRUE
    ELSE IF b = <<>> THEN FALSE
    ELSE IF Head(a) = Head(b) THEN IsSubsequence(Tail(a), Tail(b))
    ELSE IsSubsequence(a, Tail(b))

\* what holds of the root list whether or not a closed-at time is present
C21_RootsExceptPresence ==
    filterCalled =>
        /\ IsSubsequence(filteredTopLevelIssues, allIssues)
        /\ \A k \in 1..Len(filteredTopLevelIssues) :
              LET r == filteredTopLevelIssues[k]
              IN /\ ~r.HasParent /\ r.State = "CLOSED" /\ r.StateReason = "COMPLETED"
                 /\ (filterOptions.ClosedDateRange # NoRange /\ r.ClosedAt # Nil) =>
                       /\ filterOptions.ClosedDateRange.StartDate <= r.ClosedAt
                       /\ r.ClosedAt <= filterOptions.ClosedDateRange.EndDate

\* C21: every issue of the root list has no parent, is CLOSED and COMPLETED and, when a
\* date range is configured, has a closed-at time that is present and within the range;
\* the list keeps the provider's order.
C21_RootsFiltered ==
    /\ C21_RootsExceptPresence
    /\ filterCalled =>
          \A k \in 1..Len(filteredTopLevelIssues) :
              filterOptions.ClosedDateRange # NoRange =>
                  filteredTopLevelIssues[k].ClosedAt # Nil

\* ---------------------------------------------------------------- C24
\* C24: every root passed on to family construction carries the label pbi or dev-pbi.
C24_RootsAreEpics ==
    filterCalled =>
        \A k \in 1..Len(filteredTopLevelIssues) : EpicClass(filteredTopLevelIssues[k])

\* ---------------------------------------------------------------- C22
\* a reported COMPLETED issue one of whose timestamps does not parse
Malformed(u) == ClosedCompleted(u) /\ ~WellTimed(u)

RECURSIVE FamilyAsIfAbsent(_, _)
\* the sub-issue forest of u at depth d over the provider from whose pages the malformed
\* issues are taken out
FamilyAsIfAbsent(u, d) ==
    IF d >= maxDepth \/ FetchFails(u) THEN <<>>
    ELSE LET returned == SelectSeq(Edges(u), LAMBDA v : ~Malformed(v))
             kept == SelectSeq(returned, LAMBDA v : ClosedCompleted(v))
         IN [k \in 1..Len(kept) |-> Node(kept[k], FamilyAsIfAbsent(kept[k], d + 1))]

\* C22: a fetched child whose created-at or closed-at time does not parse is in no tree
\* and no fetch is issued for it, and the families built are those of the provider that
\* does not return the malformed child at all.
C22_MalformedExcluded ==
    /\ \A f \in Forests : \A n \in NodesOf(f) :
          \A k \in 1..Len(n.SubIssues) : ~Malformed(n.SubIssues[k].IssueURL)
    /\ \A j \in LogIdx : fetchLog[j].depth > 0 => ~Malformed(fetchLog[j].url)
    /\ Done =>
          \A k \in 1..Len(topLevelIssues) :
              result.issues[k] = Node(topLevelIssues[k], FamilyAsIfAbsent(topLevelIssues[k], 0))

\* a finished build in which the root's page returned a child with a malformed closed-at
\* time and, after it, a sibling: the sibling is in the family, the malformed child and
\* its own sub-issue are not, and neither was asked for
C22_Witness ==
    /\ Done /\ maxDepth >= 2 /\ pageSize = 2
    /\ \E m, s, d \in Items :
          /\ m < s /\ {m, s} \subseteq subIssues[topLevelIssues[1]]
          /\ Malformed(m) /\ issue[m].ClosedAt = "malformed"
          /\ d \in subIssues[m]
          /\ URLsOf(result.issues) = {topLevelIssues[1], s}
          /\ \A j \in LogIdx : fetchLog[j].url \notin {m, d}

\* ---------------------------------------------------------------- C23
\* the provider reports the number v for the field called name
ReportedAs(name, v) ==
    \E k \in 1..Len(subIssue.FieldValues) :
        LET fv == subIssue.FieldValues[k]
        IN /\ fv.TypeName = "ProjectV2ItemFieldNumberValue"
           /\ fv.Name = name /\ fv.HasNumber /\ fv.Number = v
NotReported(name) == \A v \in NumberValues : ~ReportedAs(name, v)

\* what a field reported or not reported adds to a total of a Story-class issue
Added(name) ==
    IF StoryClass(item) /\ ~NotReported(name)
    THEN CHOOSE v \in NumberValues : ReportedAs(name, v)
    ELSE 0

C25_WeeklyPeriod ==
    weeklyPeriod # NoRet =>
        LET yesterday == now - TicksPerDay
        IN /\ weeklyPeriod.StartDate % TicksPerDay = 0
           /\ (weeklyPeriod.StartDate \div TicksPerDay) % 7 = weekday
           /\ weeklyPeriod.EndDate = weeklyPeriod.StartDate + 7 * TicksPerDay
           /\ weeklyPeriod.StartDate <= yesterday /\ yesterday < weeklyPeriod.EndDate
           /\ \A yw \in 0..6 : daysSinceTargetWeekday(yw, weekday) \in 0..6

\* the period computed late on a day whose yesterday is the day before the wanted
\* weekday: it began six days before yesterday
C25_Witness ==
    /\ weeklyPeriod # NoRet
    /\ now % TicksPerDay = TicksPerDay - 1
    /\ ((now \div TicksPerDay) - 1) % 7 < weekday
    /\ weeklyPeriod.StartDate = ((now \div TicksPerDay) - 1 - 6) * TicksPerDay

RECURSIVE ChainEnd(_, _)
\* the issue without parent at the end of the parent chain from n, 0 if the chain of at
\* most k steps does not end
ChainEnd(n, k) ==
    IF parentOf[n] = 0 THEN n
    ELSE IF k = 0 THEN 0
    ELSE ChainEnd(parentOf[n], k - 1)

\* C27: getTopParentIssue terminates on every parent relation, cyclic ones included: every
\* query but the last asks for an issue not asked for before, the last one is the first to
\* meet a visited issue or an issue without parent; and when the parent chain from the
\* start issue ends, the issue at its end is returned.
C27_TopParentTerminates ==
    /\ [](/\ Len(queryLog) <= NumItems + 1
          /\ \A i, j \in 1..Len(queryLog) :
                (i < j /\ queryLog[i] = queryLog[j]) => (j = Len(queryLog) /\ topParent # NoRet)
          /\ (topParent # NoRet /\ ~topParent.err /\ ChainEnd(queryLog[1], NumItems) # 0) =>
                topParent.Number = ChainEnd(queryLog[1], NumItems))
    /\ <>(topParent # NoRet)

\* a return from a cycle of three issues entered from a fourth: the issue where the
\* chain entered the cycle was asked for twice, every other issue once
C27_Witness ==
    /\ topParent # NoRet /\ ~topParent.err
    /\ Len(queryLog) = 5 /\ Cardinality(Range(queryLog)) = 4
    /\ queryLog[5] = queryLog[2]
    /\ topParent.Number = queryLog[2]

\* the numbers of the issues whose processIssue activations are open, outermost first
OpenNumbers == [k \in 1..Len(calls) |-> calls[k].Number]

\* C28: processIssue returns on every repository whose API calls all succeed, bodies
\* that mention each other or their own issue included: no activation is nested in an
\* activation for the same issue, and main's call returns.
C28_ProcessTerminates ==
    /\ [](\A j, k \in 1..Len(calls) : OpenNumbers[j] = OpenNumbers[k] => j = k)
    /\ <>(issueInfo # NoRet)

RECURSIVE FirstPages(_)
\* the first k pages, one after the other
FirstPages(k) == IF k = 0 THEN <<>> ELSE FirstPages(k - 1) \o pages[k]

\* the calls of ListByRepo that brought a page, in order
Arrived == SelectSeq(listLog, LAMBDA e : e.ok)

\* C29: getAllIssues neither skips nor repeats a page. The pages that arrived are pages
\* 1, 2, ... in order and the list holds exactly them; a call that failed is followed by
\* a call for the same page; a return by NextPage == 0 brings every page once in page
\* order, and a return with less is the break after a failed rate-limit check, with the
\* pages fetched until then.
C29_PagesOnceInOrder ==
    /\ \A k \in 1..Len(Arrived) : PageOf(Arrived[k].page) = k
    /\ listedIssues = FirstPages(Len(Arrived))
    /\ \A k \in 1..Len(listLog) :
          ~listLog[k].ok =>
              IF k < Len(listLog) THEN listLog[k + 1].page = listLog[k].page
              ELSE opts = listLog[k].page
    /\ listReturn # NoRet =>
          /\ listReturn.issues = listedIssues
          /\ listReturn.ended = "NextPage" =>
                listReturn.issues = FirstPages(Len(pages))
          /\ Len(Arrived) < Len(pages) => listReturn.ended = "RateLimit"

\* three pages returned by NextPage == 0 after a fetch of the second page had failed
C29_Witness ==
    /\ listReturn # NoRet /\ listReturn.ended = "NextPage"
    /\ Len(pages) = 3 /\ \A p \in 1..3 : pages[p] # <<>>
    /\ \E k \in 1..Len(listLog) : ~listLog[k].ok /\ listLog[k].page = 2

RECURSIVE SubIssueCounts(_, _)
\* the sum of SubIssueCount over the summaries from index k on
SubIssueCounts(sums, k) ==
    IF k > Len(sums) THEN 0 ELSE sums[k].SubIssueCount + SubIssueCounts(sums, k + 1)

RECURSIVE DepthTotal(_, _)
\* the sum of the counts of the depths in keys
DepthTotal(counts, keys) ==
    IF keys = {} THEN 0
    ELSE LET d == CHOOSE x \in keys : TRUE
         IN counts[d] + DepthTotal(counts, keys \ {d})

\* C30: on every list of built families the sub-issue total of
\* calculateIssueHierarchyStats is the sum of SubIssueCount over the summaries of
\* calculateIssueSummaries, and its per-depth counts add up to the number of top-level
\* issues plus that total.
C30_StatsAgree ==
    (hierarchyStats # NoRet /\ issueSummaries # NoRet) =>
        /\ hierarchyStats.totalSubIssues = SubIssueCounts(issueSummaries.summaries, 1)
        /\ DepthTotal(hierarchyStats.depthCounts, DOMAIN hierarchyStats.depthCounts)
              = Len(families) + hierarchyStats.totalSubIssues
        /\ hierarchyStats.totalIssues = Len(families)

\* two families, one of them with a sub-issue that has a sub-issue of its own
C30_Witness ==
    /\ hierarchyStats # NoRet /\ issueSummaries # NoRet
    /\ Len(families) = 2
    /\ hierarchyStats.totalSubIssues = 2
    /\ DOMAIN hierarchyStats.depthCounts = {0, 1, 2}

====
